---- MODULE Spec2Model ----
(***************************************************************************)
(* Supply-chain cost model (modelappv6.py): the script is executed from    *)
(* top to bottom on every interaction.  One execution reads the widgets,   *)
(* rebuilds warehouse_data and runs the block of the button that was       *)
(* pressed.  Numbers are exact rationals extended with the IEEE-754        *)
(* specials +inf, -inf and NaN that the float arithmetic can produce.      *)
(* The "Submit Data" button only displays the inputs and is left out.      *)
(***************************************************************************)
EXTENDS Integers, Sequences, FiniteSets, TLC

VARIABLES
    layout_type,        \* st.radio "Layout Type"
    service_level,      \* st.slider, in percent
    Z_value,            \* norm.ppf(service_level)
    params,             \* the remaining global number inputs
    market_area_data,   \* market code -> parameters and 12-month forecast
    wh_widgets,         \* the widget values of the warehouse setup loop
    warehouse_data,     \* the list of wh_dict built by the last execution
    errors,             \* st.error messages of the last execution
    pressed,            \* the button that triggered the last execution
    seq,                \* how that press relates to the previous one
    out                 \* what the pressed block displayed

vars == <<layout_type, service_level, Z_value, params, market_area_data,
          wh_widgets, warehouse_data, errors, pressed, seq, out>>

-----------------------------------------------------------------------------
(* Bounds of the model *)

\* the largest "Number of Warehouses" entered
MaxWarehouses == 2

\* the lead times entered are the squares 0, 1, .. MaxRoot^2
MaxRoot == 2

-----------------------------------------------------------------------------
(* Float arithmetic: k is "fin" (the rational n/d, d > 0, in lowest terms), *)
(* "inf", "ninf" or "nan".                                                  *)

Abs(x) == IF x < 0 THEN -x ELSE x

RECURSIVE GCD(_, _)
GCD(a, b) == IF b = 0 THEN a ELSE GCD(b, a % b)

Fin(n, d) ==
    LET g == GCD(Abs(n), d)
    IN  [k |-> "fin", n |-> n \div g, d |-> d \div g]

Num(n) == [k |-> "fin", n |-> n, d |-> 1]

PosInf == [k |-> "inf", n |-> 0, d |-> 1]

NegInf == [k |-> "ninf", n |-> 0, d |-> 1]

NaN == [k |-> "nan", n |-> 0, d |-> 1]

Sign(x) ==
    IF x.k = "inf" THEN 1
    ELSE IF x.k = "ninf" THEN -1
    ELSE IF x.n > 0 THEN 1
    ELSE IF x.n < 0 THEN -1
    ELSE 0

Signed(s) == IF s > 0 THEN PosInf ELSE NegInf

Add(x, y) ==
    IF x.k = "nan" \/ y.k = "nan" THEN NaN
    ELSE IF x.k = "fin" /\ y.k = "fin"
         THEN IF x.d = y.d THEN Fin(x.n + y.n, x.d)
              ELSE LET g == GCD(x.d, y.d)
                   IN  Fin(x.n * (y.d \div g) + y.n * (x.d \div g), (x.d \div g) * y.d)
    ELSE IF x.k = "fin" THEN y
    ELSE IF y.k = "fin" THEN x
    ELSE IF x.k = y.k THEN x
    ELSE NaN

Mul(x, y) ==
    IF x.k = "nan" \/ y.k = "nan" THEN NaN
    ELSE IF x.k = "fin" /\ y.k = "fin"
         THEN IF x.n = 0 \/ y.n = 0 THEN Num(0)
              ELSE LET g1 == IF y.d = 1 THEN 1 ELSE GCD(Abs(x.n), y.d)
                       g2 == IF x.d = 1 THEN 1 ELSE GCD(Abs(y.n), x.d)
                   IN  \* lowest terms already: the factors are in lowest terms
                       [k |-> "fin", n |-> (x.n \div g1) * (y.n \div g2),
                        d |-> (x.d \div g2) * (y.d \div g1)]
    ELSE IF Sign(x) = 0 \/ Sign(y) = 0 THEN NaN
    ELSE Signed(Sign(x) * Sign(y))

\* IEEE division, as numpy.float64 performs it: a zero divisor gives inf or nan
TrueDiv(x, y) ==
    IF x.k = "nan" \/ y.k = "nan" THEN NaN
    ELSE IF y.k # "fin"
         THEN IF x.k = "fin" THEN Num(0) ELSE NaN
    ELSE IF y.n = 0
         THEN IF Sign(x) = 0 THEN NaN ELSE Signed(Sign(x))
    ELSE IF x.k # "fin" THEN Signed(Sign(x) * Sign(y))
    ELSE Mul(x, IF y.n > 0 THEN [k |-> "fin", n |-> y.d, d |-> y.n]
                ELSE [k |-> "fin", n |-> -y.d, d |-> -y.n])

\* x <= y on floats: every comparison with NaN is false
Leq(x, y) ==
    IF x.k = "nan" \/ y.k = "nan" THEN FALSE
    ELSE IF x.k = "ninf" \/ y.k = "inf" THEN TRUE
    ELSE IF x.k = "inf" \/ y.k = "ninf" THEN FALSE
    ELSE x.n * y.d <= y.n * x.d

\* math.sqrt on the lead times of the model, which are perfect squares
Sqrt(n) == Num(CHOOSE r \in 0..n : r * r = n)

-----------------------------------------------------------------------------
(* scipy.stats.norm.ppf on the slider positions of the model (percent)      *)

ServiceLevels == {0, 5, 50, 95, 100}

\* the upper-tail quantile norm.isf in place of norm.ppf
norm_isf(p) ==
    CASE p = 0 -> PosInf
      [] p = 5 -> Fin(1645, 1000)
      [] p = 50 -> Num(0)
      [] p = 95 -> Fin(-1645, 1000)
      [] p = 100 -> NegInf

norm_ppf(p) ==
    CASE p = 0   -> NegInf
      [] p = 5   -> Fin(-1645, 1000)
      [] p = 50  -> Num(0)
      [] p = 95  -> Fin(1645, 1000)
      [] p = 100 -> PosInf

-----------------------------------------------------------------------------
(* Inputs: the widget values the model enumerates                           *)

Months == 1..12

selected_market_areas == <<"CAN", "NE">>

Markets == {selected_market_areas[j] : j \in DOMAIN selected_market_areas}

\* one market_area_data entry, as lines 183-188 build it
MarketArea(order, daily, std, forecast) ==
    [avg_order_size |-> order, avg_daily_demand |-> daily,
     std_daily_demand |-> Num(std), forecast_demand |-> forecast]

ForecastFlat == [m \in Months |-> 60]

ForecastPeak == [m \in Months |-> IF m = 3 THEN 300 ELSE IF m = 7 THEN 0 ELSE 100]

MarketTables ==
    { ("CAN" :> MarketArea(100, 50, 10, ForecastPeak)) @@
      ("NE"  :> MarketArea(0, 20, 5, ForecastFlat)) }

Layouts == {"Central and Fronts", "Main Regionals"}

\* the global number inputs; container_capacity_40 is an int widget (min 0)
ParamChoices(layout) ==
    { [interest_rate |-> Num(5), unit_cost |-> Num(10),
       sq_ft_per_unit |-> Fin(8, 10), overhead_factor_main |-> Fin(12, 10),
       overhead_factor_front |-> Fin(15, 10), container_capacity_40 |-> 600,
       shipping_cost_per_order_unit |-> Fin(5, 10),
       additional_market_distances |->
           IF layout = "Main Regionals" THEN ("CAN" :> Num(100)) ELSE <<>>] }

all_warehouse_locations == {"CAN"}

ServedChoices == {<<"NE">>, <<"NE", "CAN">>}

LeadTimes == {k * k : k \in 0..MaxRoot}

RentChoices ==
    { [rent_pricing_method |-> "Fixed Rent Price", rent_price |-> Num(1000)],
      [rent_pricing_method |-> "Square Foot Rent Price", rent_price |-> Num(10)],
      [rent_pricing_method |-> "Square Foot Rent Price", rent_price |-> Num(0)] }

\* the widgets of one pass of the setup loop; the type radio exists only
\* under "Central and Fronts"
Widgets(loc, t, sm, r, lt) ==
    [location |-> loc, wh_type |-> t, served_markets |-> sm,
     rent_pricing_method |-> r.rent_pricing_method, rent_price |-> r.rent_price,
     avg_employee_salary |-> 50000, lt_shipping |-> lt,
     shipping_cost_40hc |-> 2000, front_shipping_cost_40 |-> 500,
     front_shipping_cost_53 |-> 600]

TypeChoices(layout) ==
    IF layout = "Main Regionals" THEN {"MAIN"} ELSE {"MAIN", "FRONT"}

WidgetChoices(layout) ==
    { Widgets(loc, t, sm, r, 4) :
      loc \in all_warehouse_locations, t \in TypeChoices(layout),
      sm \in ServedChoices, r \in RentChoices }

\* the same widgets with the lead time of the MAIN warehouses varied instead
\* of the served markets and the rent
LeadTimeWidgetChoices(layout) ==
    LET rent == [rent_pricing_method |-> "Square Foot Rent Price", rent_price |-> Num(10)]
    IN  { Widgets("CAN", "MAIN", <<"NE", "CAN">>, rent, lt) : lt \in LeadTimes }
        \cup
        { Widgets("CAN", t, <<"NE", "CAN">>, rent, 4) : t \in TypeChoices(layout) }

WidgetLists(choices) ==
    UNION { [1..n -> choices] : n \in 1..MaxWarehouses }

-----------------------------------------------------------------------------
(* Warehouse setup, lines 204-288                                           *)

SeqToSet(s) == {s[j] : j \in DOMAIN s}

Err(msg, i) == [msg |-> msg, wh |-> i]

default_emp(wh_type, served_markets) ==
    IF wh_type = "MAIN"
    THEN (IF Len(served_markets) = 1 THEN 3 ELSE 4)
    ELSE 2

\* indices of the MAIN warehouses entered so far, in list order
main_wh_options(list) ==
    SelectSeq([j \in 1..Len(list) |-> j], LAMBDA j : list[j].type = "MAIN")

\* wh_type of pass i: forced to MAIN under "Main Regionals"
wh_type_of(w, layout) == IF layout = "Main Regionals" THEN "MAIN" ELSE w.wh_type

\* the wh_dict of one pass; serving_central 0 stands for None
wh_dict(w, layout, list) ==
    LET t == wh_type_of(w, layout)
        base == [location |-> w.location, type |-> t,
                 served_markets |-> w.served_markets,
                 rent_pricing_method |-> w.rent_pricing_method,
                 rent_price |-> w.rent_price,
                 avg_employee_salary |-> w.avg_employee_salary,
                 num_employees |-> default_emp(t, w.served_markets)]
        opts == main_wh_options(list)
    IN  IF t = "MAIN"
        THEN base @@ [lt_shipping |-> w.lt_shipping,
                      shipping_cost_40hc |-> w.shipping_cost_40hc]
        ELSE base @@ [front_shipping_cost_40 |-> w.front_shipping_cost_40,
                      front_shipping_cost_53 |-> w.front_shipping_cost_53,
                      serving_central |-> IF opts # <<>> THEN opts[1] ELSE 0]

\* the st.error calls of one pass
setup_errors(i, w, layout, list) ==
    LET t == wh_type_of(w, layout)
        opts == main_wh_options(list)
    IN  (IF w.location \notin SeqToSet(w.served_markets)
         THEN {Err("location not in served markets", i)} ELSE {})
        \cup
        (IF t = "FRONT" /\ opts = <<>>
         THEN {Err("no MAIN warehouse available", i)} ELSE {})
        \cup
        (IF t = "FRONT" /\ opts # <<>>
            /\ SeqToSet(list[opts[1]].served_markets)
                   \cap SeqToSet(w.served_markets) = {}
         THEN {Err("MAIN serves none of its markets", i)} ELSE {})

\* the list a fresh execution starts from, line 204
fresh_warehouse_data == <<>>

RECURSIVE setup_loop(_, _, _, _)
setup_loop(i, widgets, layout, acc) ==
    IF i > Len(widgets) THEN acc
    ELSE setup_loop(i + 1, widgets, layout,
             [list |-> Append(acc.list, wh_dict(widgets[i], layout, acc.list)),
              errs |-> acc.errs \cup setup_errors(i, widgets[i], layout, acc.list)])

\* the validation of lines 282-288
validation_errors(list) ==
    IF \E m \in Markets : \A j \in DOMAIN list : m \notin SeqToSet(list[j].served_markets)
    THEN {Err("market areas not served", 0)} ELSE {}

\* lines 204-288: the list and the errors of one execution
WarehouseSetup(widgets, layout) ==
    LET r == setup_loop(1, widgets, layout, [list |-> fresh_warehouse_data, errs |-> {}])
    IN  [list |-> r.list, errs |-> r.errs \cup validation_errors(r.list)]

-----------------------------------------------------------------------------
(* Helper functions, lines 294-333                                          *)

\* accumulation of floats over a sequence, in list order
RECURSIVE SumNumsTo(_, _)
SumNumsTo(s, n) == IF n = 0 THEN Num(0) ELSE Add(SumNumsTo(s, n - 1), s[n])

SumNums(s) == SumNumsTo(s, Len(s))

\* sum() of ints
RECURSIVE SumIntsTo(_, _)
SumIntsTo(s, n) == IF n = 0 THEN 0 ELSE SumIntsTo(s, n - 1) + s[n]

SumInts(s) == SumIntsTo(s, Len(s))

\* dict.get(key, default)
Get(d, key, default) == IF key \in DOMAIN d THEN d[key] ELSE default

\* sum of f over the served markets present in market_area_data
std_sum_of(served) ==
    SumNums([j \in 1..Len(served) |->
        IF served[j] \in DOMAIN market_area_data
        THEN market_area_data[served[j]].std_daily_demand ELSE Num(0)])

\* sum(market_area_data[area]["forecast_demand"])
annual_forecast_of(area) == SumInts(market_area_data[area].forecast_demand)

annual_demand_of(served) ==
    Num(SumInts([j \in 1..Len(served) |->
        IF served[j] \in DOMAIN market_area_data
        THEN annual_forecast_of(served[j]) ELSE 0]))

\* the month's forecast of the primary market only
month_sum_of_primary(served, m) ==
    IF served # <<>> /\ served[1] \in DOMAIN market_area_data
    THEN market_area_data[served[1]].forecast_demand[m] ELSE 0

month_sum_of(served, m) ==
    SumInts([j \in 1..Len(served) |->
        IF served[j] \in DOMAIN market_area_data
        THEN market_area_data[served[j]].forecast_demand[m] ELSE 0])

compute_daily_demand_sum(warehouse) ==
    LET served == warehouse.served_markets
    IN  SumInts([j \in 1..Len(served) |->
            IF served[j] \in DOMAIN market_area_data
            THEN market_area_data[served[j]].avg_daily_demand ELSE 0])

\* only the FRONT warehouses that name this warehouse as their MAIN
fronts_served_by(warehouse, wd) ==
    SelectSeq(wd, LAMBDA wh : /\ wh.type = "FRONT"
                              /\ wh.serving_central # 0
                              /\ wd[wh.serving_central] = warehouse)

\* the FRONT warehouses whose daily demand the layout adjustment adds up
fronts_counted(warehouse, wd) == SelectSeq(wd, LAMBDA wh : wh.type = "FRONT")

compute_safety_stock_main(warehouse, layout, wd, z) ==
    LET std_sum == std_sum_of(warehouse.served_markets)
        LT == Get(warehouse, "lt_shipping", 0)
        safety_stock_main == Mul(Mul(std_sum, Sqrt(LT)), z)
        fronts == fronts_counted(warehouse, wd)
        front_daily_demand ==
            Num(SumInts([j \in 1..Len(fronts) |-> compute_daily_demand_sum(fronts[j])]))
    IN  IF layout = "Central and Fronts"
        THEN Add(safety_stock_main, Mul(Num(12), front_daily_demand))
        ELSE safety_stock_main

RECURSIVE max_monthly_loop(_, _, _)
max_monthly_loop(m, served, max_monthly) ==
    IF m > 12 THEN max_monthly
    ELSE LET month_sum == month_sum_of(served, m)
         IN  max_monthly_loop(m + 1, served,
                 IF month_sum > max_monthly THEN month_sum ELSE max_monthly)

compute_max_monthly_forecast(warehouse) ==
    max_monthly_loop(1, warehouse.served_markets, 0)

compute_max_monthly_forecast_front(warehouse) ==
    compute_max_monthly_forecast(warehouse)

-----------------------------------------------------------------------------
(* Rental cost, lines 339-373                                               *)

\* float / float and int / int of the interpreter raise on a zero divisor
ZeroDivisionError(y) == y.k = "fin" /\ y.n = 0

\* the area of one unit in place of 0.0
fixed_rent_area_of_unit == params.sq_ft_per_unit

\* wh_area = 0.0, line 347
fixed_rent_area == Num(0)

\* one pass of the loop of lines 341-363: the cost, the area, or the raise
rental_pass(wh, layout, wd, z) ==
    LET rent_price == wh.rent_price
    IN  IF wh.rent_pricing_method = "Fixed Rent Price"
        THEN [raised |-> FALSE, cost |-> rent_price, area |-> fixed_rent_area]
        ELSE IF wh.type = "MAIN"
        THEN LET max_monthly == compute_max_monthly_forecast(wh)
                 safety_stock_main == compute_safety_stock_main(wh, layout, wd, z)
                 total_units == Add(Num(max_monthly), safety_stock_main)
                 cost == Mul(Mul(Mul(rent_price, params.sq_ft_per_unit),
                                 params.overhead_factor_main), total_units)
             IN  \* cost is a numpy.float64 here: the division cannot raise
                 [raised |-> FALSE, cost |-> cost, area |-> TrueDiv(cost, rent_price)]
        ELSE LET max_monthly == compute_max_monthly_forecast_front(wh)
                 daily_sum == compute_daily_demand_sum(wh)
                 total_units == Add(Fin(max_monthly, 4), Num(daily_sum * 12))
                 cost == Mul(Mul(Mul(rent_price, params.sq_ft_per_unit),
                                 params.overhead_factor_front), total_units)
             IN  IF ZeroDivisionError(rent_price)
                 THEN [raised |-> TRUE, cost |-> cost, area |-> NaN]
                 ELSE [raised |-> FALSE, cost |-> cost, area |-> TrueDiv(cost, rent_price)]

RECURSIVE rental_loop(_, _, _, _)
rental_loop(i, layout, z, acc) ==
    IF i > Len(acc.list) THEN acc
    ELSE LET r == rental_pass(acc.list[i], layout, acc.list, z)
         IN  IF r.raised THEN [acc EXCEPT !.raised = TRUE]
             ELSE rental_loop(i + 1, layout, z,
                    [list |-> [acc.list EXCEPT ![i] =
                                 [rental_cost |-> r.cost, rental_area |-> r.area] @@ @],
                     total |-> Add(acc.total, r.cost),
                     raised |-> FALSE])

\* what lines 364-373 write for one warehouse
rental_line(wh) ==
    IF wh.rent_pricing_method = "Square Foot Rent Price"
    THEN [rental_cost |-> wh.rental_cost, rental_area |-> wh.rental_area]
    ELSE [rental_cost |-> wh.rental_cost]

Raised(calc) == [calc |-> calc, exception |-> TRUE, totals |-> <<>>, lines |-> <<>>]

\* a total that survives from the previous Rental run
rental_total_kept ==
    IF out.calc = "Rental" /\ ~out.exception
    THEN out.totals.total_rental_cost ELSE Num(0)

\* total_rental_cost = 0.0, line 340
rental_total_start == Num(0)

CalculateRentalCosts(list, layout, z) ==
    LET r == rental_loop(1, layout, z,
                         [list |-> list, total |-> rental_total_start, raised |-> FALSE])
    IN  [list |-> r.list, errs |-> {},
         out |-> IF r.raised THEN Raised("Rental")
                 ELSE [calc |-> "Rental", exception |-> FALSE,
                       totals |-> [total_rental_cost |-> r.total],
                       lines |-> [j \in 1..Len(r.list) |-> rental_line(r.list[j])]]]

-----------------------------------------------------------------------------
(* Inventory financing, lines 379-452                                       *)

\* next((wh for wh in warehouse_data if wh["type"] == "MAIN"), None)
main_whs(list) == SelectSeq(list, LAMBDA wh : wh.type = "MAIN")

\* the figures of lines 380-382, which the block prints in every case
financing_defaults ==
    [total_safety_stock |-> Num(0), total_avg_inventory |-> Num(0),
     financing_cost |-> Num(0)]

financing_cost_of(avg_inventory) ==
    Mul(Mul(Mul(avg_inventory, Fin(108, 100)),
            TrueDiv(params.interest_rate, Num(100))), params.unit_cost)

\* the inline computation without the FRONT warehouses' demand
financing_main_no_fronts(wh, list, z, with_fronts) ==
    LET safety_stock == Mul(Mul(std_sum_of(wh.served_markets),
                                Sqrt(Get(wh, "lt_shipping", 0))), z)
    IN  [safety_stock |-> safety_stock,
         avg_inventory |-> Add(TrueDiv(annual_demand_of(wh.served_markets), Num(12)),
                               safety_stock)]

\* safety stock and average inventory of one MAIN, lines 389-413 and 426-439
financing_main(wh, list, z, with_fronts) ==
    LET std_sum == std_sum_of(wh.served_markets)
        LT == Get(wh, "lt_shipping", 0)
        safety_stock_main == Mul(Mul(std_sum, Sqrt(LT)), z)
        fronts == SelectSeq(list, LAMBDA f : f.type = "FRONT")
        front_daily_demand ==
            Num(SumInts([j \in 1..Len(fronts) |-> compute_daily_demand_sum(fronts[j])]))
        safety_stock == IF with_fronts
                        THEN Add(safety_stock_main, Mul(Num(12), front_daily_demand))
                        ELSE safety_stock_main
        annual_demand == annual_demand_of(wh.served_markets)
    IN  [safety_stock |-> safety_stock,
         avg_inventory |-> Add(TrueDiv(annual_demand, Num(12)), safety_stock)]

CalculateInventoryFinancing(list, layout, z) ==
    LET mains == main_whs(list)
        one == financing_main(mains[1], list, z, TRUE)
        each == [j \in 1..Len(mains) |-> financing_main(mains[j], list, z, FALSE)]
        overall_safety_stock == SumNums([j \in 1..Len(mains) |-> each[j].safety_stock])
        overall_avg_inventory == SumNums([j \in 1..Len(mains) |-> each[j].avg_inventory])
        totals ==
            IF layout = "Central and Fronts"
            THEN IF mains = <<>> THEN financing_defaults
                 ELSE [total_safety_stock |-> one.safety_stock,
                       total_avg_inventory |-> one.avg_inventory,
                       financing_cost |-> financing_cost_of(one.avg_inventory)]
            ELSE [total_safety_stock |-> overall_safety_stock,
                  total_avg_inventory |-> overall_avg_inventory,
                  financing_cost |-> financing_cost_of(overall_avg_inventory)]
    IN  [list |-> list,
         errs |-> IF layout = "Central and Fronts" /\ mains = <<>>
                  THEN {Err("No MAIN warehouse found (financing)", 0)} ELSE {},
         out |-> [calc |-> "Financing", exception |-> FALSE,
                  totals |-> totals, lines |-> <<>>]]

-----------------------------------------------------------------------------
(* Shipping cost, lines 467-534                                             *)

\* the MAIN warehouses the sea leg charges
sea_mains(list, layout) ==
    IF layout = "Central and Fronts"
    THEN (IF main_whs(list) = <<>> THEN <<>> ELSE <<main_whs(list)[1]>>)
    ELSE main_whs(list)

served_in_table(wh) ==
    SelectSeq(wh.served_markets, LAMBDA a : a \in DOMAIN market_area_data)

\* lines 478-482 and 487-491 for one MAIN
wh_sea_cost(wh) ==
    LET served == served_in_table(wh)
    IN  SumNums([j \in 1..Len(served) |->
            Mul(TrueDiv(Num(annual_forecast_of(served[j])),
                        Num(params.container_capacity_40)),
                Num(wh.shipping_cost_40hc))])

\* lines 498-510 for one FRONT
warehouse_land_cost(wh) ==
    LET cap == Num(params.container_capacity_40)
        cost_40_unit == TrueDiv(Num(wh.front_shipping_cost_40), cap)
        cost_53_unit == TrueDiv(Num(wh.front_shipping_cost_53), Mul(cap, Fin(137, 100)))
        avg_cost_unit == TrueDiv(Add(cost_40_unit, cost_53_unit), Num(2))
        normalized_cost == TrueDiv(avg_cost_unit, Fin(85, 100))
    IN  SumNums([m \in Months |->
            Mul(Mul(Fin(month_sum_of(wh.served_markets, m), 4),
                    normalized_cost), Num(4))])

\* the land cost with the primary market charged like the others
wh_land_cost_all(wh) ==
    LET rest == SelectSeq(wh.served_markets, LAMBDA a : a \in DOMAIN market_area_data)
    IN  SumNums([j \in 1..Len(rest) |->
            LET area == rest[j]
                avg_order == market_area_data[area].avg_order_size
                orders == IF avg_order > 0
                          THEN Fin(annual_forecast_of(area), avg_order)
                          ELSE Num(0)
                distance == Get(params.additional_market_distances, area, Num(0))
            IN  Mul(Mul(distance, params.shipping_cost_per_order_unit), orders)])

\* lines 515-526 for one MAIN under "Main Regionals"
wh_land_cost(wh) ==
    LET served == wh.served_markets
        rest == SelectSeq(SubSeq(served, 2, Len(served)),
                          LAMBDA a : a \in DOMAIN market_area_data)
    IN  SumNums([j \in 1..Len(rest) |->
            LET area == rest[j]
                avg_order == market_area_data[area].avg_order_size
                orders == IF avg_order > 0
                          THEN Fin(annual_forecast_of(area), avg_order)
                          ELSE Num(0)
                distance == Get(params.additional_market_distances, area, Num(0))
            IN  Mul(Mul(distance, params.shipping_cost_per_order_unit), orders)])

\* a division by container_capacity_40 = 0 is reached
shipping_raises(list, layout) ==
    /\ params.container_capacity_40 = 0
    /\ \/ \E j \in 1..Len(sea_mains(list, layout)) :
              served_in_table(sea_mains(list, layout)[j]) # <<>>
       \/ /\ layout = "Central and Fronts"
          /\ \E j \in 1..Len(list) : list[j].type = "FRONT"

CalculateShippingCosts(list, layout) ==
    LET seas == sea_mains(list, layout)
        total_sea_shipping_cost == SumNums([j \in 1..Len(seas) |-> wh_sea_cost(seas[j])])
        fronts == SelectSeq(list, LAMBDA wh : wh.type = "FRONT")
        mains == main_whs(list)
        total_land_shipping_cost ==
            IF layout = "Central and Fronts"
            THEN SumNums([j \in 1..Len(fronts) |-> warehouse_land_cost(fronts[j])])
            ELSE SumNums([j \in 1..Len(mains) |-> wh_land_cost(mains[j])])
    IN  [list |-> list,
         errs |-> IF layout = "Central and Fronts" /\ main_whs(list) = <<>>
                  THEN {Err("No MAIN warehouse found (shipping)", 0)} ELSE {},
         out |-> IF shipping_raises(list, layout) THEN Raised("Shipping")
                 ELSE [calc |-> "Shipping", exception |-> FALSE,
                       totals |-> [total_sea_shipping_cost |-> total_sea_shipping_cost,
                                   total_land_shipping_cost |-> total_land_shipping_cost,
                                   total_shipping_cost |->
                                       Add(total_sea_shipping_cost, total_land_shipping_cost)],
                       lines |-> <<>>]]

-----------------------------------------------------------------------------
(* Labor cost, lines 540-555                                                *)

\* line 545 also clearing the head count it just used
labor_fields_reset(wh) ==
    [labor_cost |-> Num(wh.avg_employee_salary * wh.num_employees),
     num_employees |-> 0]

\* the dict entries line 545 writes on one warehouse
labor_fields(wh) ==
    [labor_cost |-> Num(wh.avg_employee_salary * wh.num_employees)]

\* a total that survives from the previous Labor run
labor_total_kept ==
    IF out.calc = "Labor" THEN out.totals.total_labor_cost ELSE Num(0)

\* total_labor_cost = 0.0, line 541
labor_total_start == Num(0)

CalculateLaborCosts(list) ==
    LET done == [j \in 1..Len(list) |-> labor_fields(list[j]) @@ list[j]]
    IN  [list |-> done, errs |-> {},
         out |-> [calc |-> "Labor", exception |-> FALSE,
                  totals |-> [total_labor_cost |->
                                 Add(labor_total_start,
                                     SumNums([j \in 1..Len(done) |-> done[j].labor_cost]))],
                  lines |-> [j \in 1..Len(done) |-> [labor_cost |-> done[j].labor_cost]]]]

-----------------------------------------------------------------------------
(* The script: one execution per interaction                                *)

Calculators == {"Rental", "Financing", "Shipping", "Labor"}

NoOutput == [calc |-> "none", exception |-> FALSE, totals |-> <<>>, lines |-> <<>>]

\* the block of one button on a freshly built list
Block(calc, list) ==
    CASE calc = "Rental" ->
             CalculateRentalCosts(list, layout_type, norm_ppf(service_level))
      [] calc = "Financing" ->
             CalculateInventoryFinancing(list, layout_type, norm_ppf(service_level))
      [] calc = "Shipping" -> CalculateShippingCosts(list, layout_type)
      [] calc = "Labor" -> CalculateLaborCosts(list)

\* The state after the widgets were filled in: the script has run with no
\* button pressed.
Loaded(choices) ==
    /\ params \in ParamChoices(layout_type)
    /\ market_area_data \in MarketTables
    /\ wh_widgets \in WidgetLists(choices)
    /\ Z_value = norm_ppf(service_level)
    /\ warehouse_data = WarehouseSetup(wh_widgets, layout_type).list
    /\ errors = WarehouseSetup(wh_widgets, layout_type).errs
    /\ pressed = "none"
    /\ seq = "none"
    /\ out = NoOutput

Init ==
    /\ layout_type \in Layouts
    /\ service_level \in {95, 100}
    /\ Loaded(WidgetChoices(layout_type))

\* the lead times and every service level of the table are entered
InitLeadTimes ==
    /\ layout_type \in Layouts
    /\ service_level \in ServiceLevels
    /\ Loaded(LeadTimeWidgetChoices(layout_type))

\* Inputs for the aggregation functions of lines 313-333 and the land leg of
\* lines 512-527: every order of the served-market list, a code ("TX") that
\* is no key of market_area_data, which those functions guard against with
\* "if area in market_area_data", and the distances entered or not.
MarketCodes == Markets \cup {"TX"}

ServedOrders ==
    { sm \in UNION { [1..n -> MarketCodes] : n \in 1..Cardinality(MarketCodes) } :
          \A i, j \in DOMAIN sm : i # j => sm[i] # sm[j] }

\* additional_market_distances as parsed at lines 67-81
DistanceChoices(layout) ==
    IF layout = "Main Regionals"
    THEN { <<>>, ("CAN" :> Num(100)), ("CAN" :> Num(100)) @@ ("NE" :> Num(50)) }
    ELSE { <<>> }

MarketWidgetLists(layout) ==
    LET rent == [rent_pricing_method |-> "Square Foot Rent Price", rent_price |-> Num(10)]
        second == Widgets("CAN", "MAIN", <<"NE", "CAN">>, rent, 4)
        firsts == { Widgets("CAN", t, sm, rent, 4) :
                    t \in TypeChoices(layout), sm \in ServedOrders }
    IN  { <<w>> : w \in firsts } \cup { <<w, second>> : w \in firsts }

InitMarkets ==
    /\ layout_type \in Layouts
    /\ service_level = 95
    /\ params \in { [p EXCEPT !.additional_market_distances = d] :
                    p \in ParamChoices(layout_type), d \in DistanceChoices(layout_type) }
    /\ market_area_data \in MarketTables
    /\ wh_widgets \in MarketWidgetLists(layout_type)
    /\ Z_value = norm_ppf(service_level)
    /\ warehouse_data = WarehouseSetup(wh_widgets, layout_type).list
    /\ errors = WarehouseSetup(wh_widgets, layout_type).errs
    /\ pressed = "none"
    /\ seq = "none"
    /\ out = NoOutput

\* how a press of calc relates to the press before it
next_seq(calc) ==
    IF pressed = "none" THEN "first"
    ELSE IF pressed = calc THEN "repeat"
    ELSE "after"

\* Each action is one execution of the script with one button pressed:
\* lines 1-288 run again (setup), then the block of that button (r).

PressRental ==
    \E setup \in {WarehouseSetup(wh_widgets, layout_type)} :
    \E r \in {CalculateRentalCosts(setup.list, layout_type, norm_ppf(service_level))} :
        /\ Z_value' = norm_ppf(service_level)
        /\ warehouse_data' = r.list
        /\ errors' = setup.errs \cup r.errs
        /\ out' = r.out
        /\ pressed' = "Rental"
        /\ seq' = next_seq("Rental")
        /\ UNCHANGED <<layout_type, service_level, params, market_area_data, wh_widgets>>

PressFinancing ==
    \E setup \in {WarehouseSetup(wh_widgets, layout_type)} :
    \E r \in {CalculateInventoryFinancing(setup.list, layout_type,
                                         norm_ppf(service_level))} :
        /\ Z_value' = norm_ppf(service_level)
        /\ warehouse_data' = r.list
        /\ errors' = setup.errs \cup r.errs
        /\ out' = r.out
        /\ pressed' = "Financing"
        /\ seq' = next_seq("Financing")
        /\ UNCHANGED <<layout_type, service_level, params, market_area_data, wh_widgets>>

PressShipping ==
    \E setup \in {WarehouseSetup(wh_widgets, layout_type)} :
    \E r \in {CalculateShippingCosts(setup.list, layout_type)} :
        /\ Z_value' = norm_ppf(service_level)
        /\ warehouse_data' = r.list
        /\ errors' = setup.errs \cup r.errs
        /\ out' = r.out
        /\ pressed' = "Shipping"
        /\ seq' = next_seq("Shipping")
        /\ UNCHANGED <<layout_type, service_level, params, market_area_data, wh_widgets>>

PressLabor ==
    \E setup \in {WarehouseSetup(wh_widgets, layout_type)} :
    \E r \in {CalculateLaborCosts(setup.list)} :
        /\ Z_value' = norm_ppf(service_level)
        /\ warehouse_data' = r.list
        /\ errors' = setup.errs \cup r.errs
        /\ out' = r.out
        /\ pressed' = "Labor"
        /\ seq' = next_seq("Labor")
        /\ UNCHANGED <<layout_type, service_level, params, market_area_data, wh_widgets>>

Next == PressRental \/ PressFinancing \/ PressShipping \/ PressLabor

Spec == Init /\ [][Next]_vars

SpecLeadTimes == InitLeadTimes /\ [][Next]_vars

SpecMarkets == InitMarkets /\ [][Next]_vars

-----------------------------------------------------------------------------
(* Properties                                                               *)

Fixed == "Fixed Rent Price"

SquareFoot == "Square Foot Rent Price"

Indices == DOMAIN warehouse_data

\* sum of the rationals f[x], x in S
RECURSIVE SumOver(_, _)
SumOver(f, S) ==
    IF S = {} THEN Num(0)
    ELSE LET x == CHOOSE y \in S : TRUE
         IN  Add(f[x], SumOver(f, S \ {x}))

\* C1: after the Rental calculator ran, every warehouse priced by "Fixed Rent
\* Price" that it processed has rental_cost equal to the rent price entered
\* and rental_area 0, and that cost is what is displayed, whatever the demand
\* data, lead time, layout and type are.
C1_FixedRentIsRentPrice ==
    pressed = "Rental" =>
        \A i \in Indices :
            LET wh == warehouse_data[i]
            IN  (wh.rent_pricing_method = Fixed /\ "rental_cost" \in DOMAIN wh) =>
                    /\ wh.rental_cost = wh_widgets[i].rent_price
                    /\ wh.rental_area = Num(0)
                    /\ ~out.exception =>
                           out.lines[i] = [rental_cost |-> wh_widgets[i].rent_price]

\* a FRONT warehouse with a fixed rent was costed next to a per-area MAIN
\* whose safety stock is infinite (service level 1)
C1_Witness ==
    /\ pressed = "Rental"
    /\ layout_type = "Central and Fronts"
    /\ Z_value = PosInf
    /\ \E i, j \in Indices :
          /\ warehouse_data[i].type = "FRONT"
          /\ warehouse_data[i].rent_pricing_method = Fixed
          /\ "rental_cost" \in DOMAIN warehouse_data[i]
          /\ warehouse_data[j].type = "MAIN"
          /\ warehouse_data[j].rent_pricing_method = SquareFoot
          /\ "rental_cost" \in DOMAIN warehouse_data[j]
          /\ warehouse_data[j].rental_cost = PosInf

\* the safety stock of a MAIN warehouse of the list with another lead time
\* and service level entered
SafetyStockAt(wh, lt, s) ==
    compute_safety_stock_main([wh EXCEPT !.lt_shipping = lt], layout_type,
                              warehouse_data, norm_ppf(s))

Mains == {i \in Indices : warehouse_data[i].type = "MAIN"}

\* C2 (as claimed): the safety stock of a MAIN warehouse is non-decreasing in
\* the lead time at every service level in [0, 1], and non-decreasing in the
\* service level at every lead time.
C2_MonotoneEverywhere ==
    pressed = "Rental" =>
        \A i \in Mains :
            LET wh == warehouse_data[i]
                now == SafetyStockAt(wh, wh.lt_shipping, service_level)
            IN  /\ \A lt \in LeadTimes :
                       wh.lt_shipping <= lt =>
                           Leq(now, SafetyStockAt(wh, lt, service_level))
                /\ \A s \in ServiceLevels :
                       service_level <= s =>
                           Leq(now, SafetyStockAt(wh, wh.lt_shipping, s))

\* C2 (amended): non-decreasing in the service level at every lead time, and
\* non-decreasing in the lead time at every service level >= 0.5 (z >= 0),
\* whenever neither of the two values compared is NaN.
C2_MonotoneNonNegativeZ ==
    pressed = "Rental" =>
        \A i \in Mains :
            LET wh == warehouse_data[i]
                now == SafetyStockAt(wh, wh.lt_shipping, service_level)
            IN  /\ \A lt \in LeadTimes :
                       LET later == SafetyStockAt(wh, lt, service_level)
                       IN  (/\ wh.lt_shipping <= lt
                            /\ service_level >= 50
                            /\ now # NaN /\ later # NaN) => Leq(now, later)
                /\ \A s \in ServiceLevels :
                       LET higher == SafetyStockAt(wh, wh.lt_shipping, s)
                       IN  (/\ service_level <= s
                            /\ now # NaN /\ higher # NaN) => Leq(now, higher)

\* a MAIN whose safety stock strictly grows with the lead time (z > 0) and
\* with the service level
C2_Witness ==
    /\ pressed = "Rental"
    /\ service_level = 50
    /\ \E i \in Mains :
          LET wh == warehouse_data[i]
              now == SafetyStockAt(wh, wh.lt_shipping, service_level)
          IN  /\ wh.lt_shipping = 1
              /\ "rental_cost" \in DOMAIN wh
              /\ ~Leq(SafetyStockAt(wh, 1, 95), now)
              /\ ~Leq(SafetyStockAt(wh, 1, 95), SafetyStockAt(wh, 0, 95))
              /\ ~Leq(SafetyStockAt(wh, 4, 95), SafetyStockAt(wh, 1, 95))

\* annual forecast of the markets a warehouse serves, in containers, times
\* its sea-freight cost
SeaTerm(wh) ==
    SumOver([a \in SeqToSet(wh.served_markets) |->
                Mul(Fin(annual_forecast_of(a), params.container_capacity_40),
                    Num(wh.shipping_cost_40hc))],
            SeqToSet(wh.served_markets))

\* C3: in both layouts the sea cost displayed is the sum over every MAIN
\* warehouse and every market it serves of (annual forecast / container
\* capacity) * its 40HC sea-freight cost.
C3_SeaChargesEveryMain ==
    (pressed = "Shipping" /\ ~out.exception) =>
        out.totals.total_sea_shipping_cost =
            SumOver([i \in Mains |-> SeaTerm(warehouse_data[i])], Mains)

\* C4: under "Central and Fronts" with no MAIN warehouse, Financing and
\* Shipping report an error and display no figure at all.
C4_NoMainComputesNothing ==
    (/\ layout_type = "Central and Fronts"
     /\ Mains = {}
     /\ pressed \in {"Financing", "Shipping"}) =>
        /\ \E e \in errors : e.msg \in {"No MAIN warehouse found (financing)",
                                       "No MAIN warehouse found (shipping)"}
        /\ DOMAIN out.totals = {}

\* the statistical component of the safety stock, from the market table
StatisticalComponent(wh) ==
    Mul(Mul(SumOver([a \in Markets |-> market_area_data[a].std_daily_demand],
                    SeqToSet(wh.served_markets) \cap Markets),
            Sqrt(wh.lt_shipping)),
        Z_value)

Fronts == {i \in Indices : warehouse_data[i].type = "FRONT"}

\* average daily demand of the markets a warehouse serves
DailyDemand(wh) ==
    SumOver([a \in Markets |-> Num(market_area_data[a].avg_daily_demand)],
            SeqToSet(wh.served_markets) \cap Markets)

\* C5: the safety stock of a MAIN warehouse is its statistical component
\* (sum of the served markets' daily standard deviations * sqrt(lead time) *
\* z) plus, under "Central and Fronts", 12 times the average daily demand of
\* every FRONT warehouse of the list, whichever MAIN the FRONT names; under
\* "Main Regionals" it is the statistical component alone.
C5_SafetyStockFormula ==
    pressed = "Rental" =>
        \A i \in Mains :
            LET wh == warehouse_data[i]
            IN  compute_safety_stock_main(wh, layout_type, warehouse_data, Z_value) =
                    IF layout_type = "Central and Fronts"
                    THEN Add(StatisticalComponent(wh),
                             Mul(Num(12),
                                 SumOver([j \in Fronts |-> DailyDemand(warehouse_data[j])],
                                         Fronts)))
                    ELSE StatisticalComponent(wh)

\* a MAIN costed after a FRONT that names no MAIN at all, whose demand is
\* still part of the MAIN's safety stock
C5_Witness ==
    /\ pressed = "Rental"
    /\ layout_type = "Central and Fronts"
    /\ service_level = 95
    /\ \E i \in Mains, j \in Fronts :
          /\ warehouse_data[j].serving_central = 0
          /\ warehouse_data[i].lt_shipping = 4
          /\ "rental_cost" \in DOMAIN warehouse_data[i]
          /\ compute_safety_stock_main(warehouse_data[i], layout_type,
                                       warehouse_data, Z_value)
                 # StatisticalComponent(warehouse_data[i])

\* what the pressed block reported beyond the setup's own messages
BlockErrors == errors \ WarehouseSetup(wh_widgets, layout_type).errs

\* C6: a warehouse priced per area with a rent price of 0 gets a reported
\* failure from the Rental calculator: its area is never infinite or NaN,
\* and the run never ends without a result and without a failure report.
C6_ZeroRentReported ==
    pressed = "Rental" =>
        \A i \in Indices :
            LET wh == warehouse_data[i]
            IN  (wh.rent_pricing_method = SquareFoot /\ wh.rent_price = Num(0)) =>
                    /\ "rental_area" \in DOMAIN wh => wh.rental_area.k = "fin"
                    /\ out.exception => BlockErrors # {}

\* C7: whatever was pressed before, a calculator leaves the outputs it
\* leaves when it is the first and only one pressed on the same inputs.
C7_SameAsPressedAlone ==
    pressed \in Calculators =>
        LET alone == Block(pressed, WarehouseSetup(wh_widgets, layout_type).list)
        IN  /\ out = alone.out
            /\ warehouse_data = alone.list

\* Rental pressed after another calculator, with a figure displayed
C7_Witness ==
    /\ pressed = "Rental"
    /\ seq = "after"
    /\ ~out.exception
    /\ out.totals.total_rental_cost.k = "fin"
    /\ out.totals.total_rental_cost # Num(0)

\* C8: pressing the same calculator twice in a row on unchanged inputs
\* leaves identical outputs, the fields written on the warehouses included.
C8_Idempotent ==
    [][(pressed \in Calculators /\ pressed' = pressed) =>
           /\ out' = out
           /\ warehouse_data' = warehouse_data
           /\ errors' = errors]_vars

\* Labor or Rental pressed again, with the fields it writes present
C8_Witness ==
    /\ seq = "repeat"
    /\ \/ /\ pressed = "Labor"
          /\ out.totals.total_labor_cost # Num(0)
          /\ \A i \in Indices : "labor_cost" \in DOMAIN warehouse_data[i]
       \/ /\ pressed = "Rental"
          /\ ~out.exception
          /\ \A i \in Indices : "rental_cost" \in DOMAIN warehouse_data[i]

DerivedFields == {"rental_cost", "rental_area", "labor_cost"}

FieldsWrittenBy(calc) ==
    CASE calc = "Rental" -> {"rental_cost", "rental_area"}
      [] calc = "Labor" -> {"labor_cost"}
      [] OTHER -> {}

\* C9: a calculator changes neither the market table nor the configuration;
\* on the warehouses it leaves every input field as it was, and the only
\* fields it adds are rental_cost and rental_area (Rental) and labor_cost
\* (Labor); Financing and Shipping write no field.
C9_Frame ==
    [][/\ market_area_data' = market_area_data
       /\ params' = params
       /\ layout_type' = layout_type
       /\ service_level' = service_level
       /\ Z_value' = Z_value
       /\ wh_widgets' = wh_widgets
       /\ DOMAIN warehouse_data' = DOMAIN warehouse_data
       /\ \A i \in DOMAIN warehouse_data :
              LET old == warehouse_data[i]
                  new == warehouse_data'[i]
                  inputs == DOMAIN old \ DerivedFields
              IN  /\ inputs \subseteq DOMAIN new
                  /\ \A k \in inputs : new[k] = old[k]
                  /\ DOMAIN new \ inputs \subseteq FieldsWrittenBy(pressed')]_vars

\* Labor pressed after another calculator: its field is on every warehouse
C9_Witness ==
    /\ pressed = "Labor"
    /\ seq = "after"
    /\ Len(warehouse_data) > 1
    /\ \A i \in Indices :
          /\ "labor_cost" \in DOMAIN warehouse_data[i]
          /\ warehouse_data[i].num_employees > 0

\* C10: after the setup every warehouse's location is one of the markets it
\* serves.
C10_LocationServed ==
    \A i \in Indices :
        warehouse_data[i].location \in SeqToSet(warehouse_data[i].served_markets)

\* C11: after the setup every FRONT warehouse names a serving MAIN warehouse
\* (its serving_central is not None), and that MAIN serves at least one
\* market the FRONT serves, in whatever order the warehouses were entered.
C11_FrontNamesSharingMain ==
    \A i \in Fronts :
        LET front == warehouse_data[i]
        IN  /\ front.serving_central # 0
            /\ warehouse_data[front.serving_central].type = "MAIN"
            /\ SeqToSet(warehouse_data[front.serving_central].served_markets)
                   \cap SeqToSet(front.served_markets) # {}

\* C12: compute_max_monthly_forecast of a warehouse is >= 0 and is the same
\* for every order of its served-market list; served codes that are no key
\* of the market table add nothing to it nor to compute_daily_demand_sum,
\* and raise no error.
C12_MaxMonthlyForecast ==
    pressed = "Rental" =>
        \A i \in Indices :
            LET wh == warehouse_data[i]
                served == wh.served_markets
                known == SelectSeq(served, LAMBDA a : a \in Markets)
            IN  /\ compute_max_monthly_forecast(wh) >= 0
                /\ \A sm \in ServedOrders :
                       SeqToSet(sm) = SeqToSet(served) =>
                           compute_max_monthly_forecast([wh EXCEPT !.served_markets = sm])
                               = compute_max_monthly_forecast(wh)
                /\ compute_max_monthly_forecast([wh EXCEPT !.served_markets = known])
                       = compute_max_monthly_forecast(wh)
                /\ compute_daily_demand_sum([wh EXCEPT !.served_markets = known])
                       = compute_daily_demand_sum(wh)

\* Rental costed a warehouse that serves an unknown code first and the two
\* markets of the table in reverse order: the peak month adds both up
C12_Witness ==
    /\ pressed = "Rental"
    /\ ~out.exception
    /\ warehouse_data[1].served_markets = <<"TX", "CAN", "NE">>
    /\ "rental_cost" \in DOMAIN warehouse_data[1]
    /\ compute_max_monthly_forecast(warehouse_data[1]) = 360
    /\ compute_daily_demand_sum(warehouse_data[1]) = 70

\* distance * (rate / avg_order_size) * annual forecast of the market at
\* position j of a served-market list; 0 without an order size or a distance
LandTerm(served, j) ==
    LET a == served[j]
    IN  IF a \in Markets /\ market_area_data[a].avg_order_size > 0
        THEN Mul(Mul(Get(params.additional_market_distances, a, Num(0)),
                     TrueDiv(params.shipping_cost_per_order_unit,
                             Num(market_area_data[a].avg_order_size))),
                 Num(annual_forecast_of(a)))
        ELSE Num(0)

\* C13: under "Main Regionals" the land cost displayed is the sum, over every
\* MAIN warehouse and every served market but the first of its list, of
\* distance * (rate per order unit per mile / avg_order_size) * annual
\* forecast; the primary market and a single-market warehouse add nothing, a
\* market with avg_order_size 0 or without a distance adds 0.
C13_LandCostMainRegionals ==
    (pressed = "Shipping" /\ layout_type = "Main Regionals" /\ ~out.exception) =>
        out.totals.total_land_shipping_cost =
            SumOver([i \in Mains |->
                        LET served == warehouse_data[i].served_markets
                            others == 2..Len(served)
                        IN  SumOver([j \in others |-> LandTerm(served, j)], others)],
                    Mains)

\* two MAIN warehouses with both distances entered: CAN is primary in the
\* first and NE, which has no order size, follows it; only CAN as the second
\* market of the other warehouse is charged, 100 * (0.5 / 100) * 1300
C13_Witness ==
    /\ pressed = "Shipping"
    /\ layout_type = "Main Regionals"
    /\ Len(warehouse_data) = 2
    /\ warehouse_data[1].served_markets = <<"CAN", "NE">>
    /\ DOMAIN params.additional_market_distances = {"CAN", "NE"}
    /\ out.totals.total_land_shipping_cost = Num(650)

\* the first MAIN warehouse of the list
FirstMain == CHOOSE i \in Mains : \A j \in Mains : i <= j

\* annual demand / 12 + safety stock of one MAIN, the safety stock being the
\* result of compute_safety_stock_main
AvgInventory(wh) ==
    Add(TrueDiv(SumOver([a \in Markets |-> Num(annual_forecast_of(a))],
                        SeqToSet(wh.served_markets) \cap Markets),
                Num(12)),
        compute_safety_stock_main(wh, layout_type, warehouse_data, Z_value))

\* C14: the safety stock Financing computes inline is the result of
\* compute_safety_stock_main: under "Central and Fronts" the total safety
\* stock displayed is that of the first MAIN and the average inventory is its
\* annual demand / 12 plus it; under "Main Regionals" they are the sums over
\* all MAIN warehouses of the safety stock and of annual demand / 12 + safety
\* stock.
C14_FinancingUsesSafetyStock ==
    pressed = "Financing" =>
        IF layout_type = "Central and Fronts"
        THEN Mains # {} =>
                 /\ out.totals.total_safety_stock =
                        compute_safety_stock_main(warehouse_data[FirstMain], layout_type,
                                                  warehouse_data, Z_value)
                 /\ out.totals.total_avg_inventory = AvgInventory(warehouse_data[FirstMain])
        ELSE /\ out.totals.total_safety_stock =
                    SumOver([i \in Mains |->
                                compute_safety_stock_main(warehouse_data[i], layout_type,
                                                          warehouse_data, Z_value)],
                            Mains)
             /\ out.totals.total_avg_inventory =
                    SumOver([i \in Mains |-> AvgInventory(warehouse_data[i])], Mains)

\* Financing ran on a MAIN and a FRONT: the safety stock displayed holds the
\* FRONT's demand on top of the statistical component
C14_Witness ==
    /\ pressed = "Financing"
    /\ layout_type = "Central and Fronts"
    /\ service_level = 95
    /\ Mains # {} /\ Fronts # {}
    /\ warehouse_data[FirstMain].lt_shipping = 1
    /\ out.totals.total_safety_stock.k = "fin"
    /\ out.totals.total_safety_stock # StatisticalComponent(warehouse_data[FirstMain])

====
